---- MODULE Spec2Model ----
(***************************************************************************)
(* Quasi-Newton optimizer of neupy (neupy/algorithms/gd/quasi_newton.py):  *)
(* the four inverse-Hessian update rules, the trial-point probes that the  *)
(* line search calls, and the training step that ties them together.       *)
(*                                                                         *)
(* Numbers.  The code computes in IEEE floating point.  The model computes *)
(* in exact rational arithmetic extended with the IEEE special values:     *)
(* a number is a pair <<n, d>>;  d > 0 is the reduced fraction n/d,        *)
(* <<1, 0>> is +inf, <<-1, 0>> is -inf and <<0, 0>> is NaN.  Division by   *)
(* zero, inf - inf and 0 * inf follow IEEE 754.  Rounding is not modelled, *)
(* and zero carries no sign (every zero divides as +0).  <<2, 0>> marks a  *)
(* value whose numerator or denominator left the range MaxMag of the      *)
(* model; a training step that would produce one is not explored.          *)
(***************************************************************************)
EXTENDS Integers, Sequences, FiniteSets, TLC

\* The range of numerators and denominators the model explores.
MaxMag == 1000000000

Abs(a) == IF a < 0 THEN -a ELSE a

RECURSIVE GCD(_, _)
GCD(a, b) == IF b = 0 THEN a ELSE GCD(b, a % b)

NaN == <<0, 0>>
PInf == <<1, 0>>
NInf == <<-1, 0>>
OutOfRange == <<2, 0>>
Zero == <<0, 1>>
One == <<1, 1>>

Int2R(k) == <<k, 1>>

IsFinite(x) == x[2] > 0
IsNaN(x) == x = NaN
IsInf(x) == x = PInf \/ x = NInf
IsOut(x) == x = OutOfRange

\* The sign of a number: -1, 0 or 1 (0 for NaN).
Sign(x) == IF x[1] > 0 THEN 1 ELSE IF x[1] < 0 THEN -1 ELSE 0

MulFits(a, b) == a = 0 \/ b = 0 \/ Abs(a) <= MaxMag \div Abs(b)

\* The reduced fraction n/d (d > 0).
Norm(n, d) ==
    LET g == GCD(Abs(n), d)
        nn == n \div g
        dd == d \div g
    IN IF Abs(nn) <= MaxMag /\ dd <= MaxMag THEN <<nn, dd>> ELSE OutOfRange

Neg(x) == IF IsOut(x) THEN x ELSE <<-x[1], x[2]>>

Add(x, y) ==
    IF x = Zero THEN y
    ELSE IF y = Zero THEN x
    ELSE IF x[2] = 1 /\ y[2] = 1
    THEN (IF Abs(x[1] + y[1]) <= MaxMag THEN <<x[1] + y[1], 1>> ELSE OutOfRange)
    ELSE IF x[2] > 0 /\ y[2] > 0
    THEN LET g == GCD(x[2], y[2])
             xs == y[2] \div g
             ys == x[2] \div g
         IN IF MulFits(x[1], xs) /\ MulFits(y[1], ys) /\ MulFits(x[2], xs)
            THEN Norm(x[1] * xs + y[1] * ys, x[2] * xs)
            ELSE OutOfRange
    ELSE IF IsOut(x) \/ IsOut(y) THEN OutOfRange
    ELSE IF IsNaN(x) \/ IsNaN(y) THEN NaN
    ELSE IF IsInf(x) /\ IsInf(y) THEN (IF x = y THEN x ELSE NaN)
    ELSE IF IsInf(x) THEN x
    ELSE y

Sub(x, y) == Add(x, Neg(y))

Mul(x, y) ==
    IF IsOut(x) \/ IsOut(y) THEN OutOfRange
    ELSE IF IsNaN(x) \/ IsNaN(y) THEN NaN
    ELSE IF IsInf(x) \/ IsInf(y)
         THEN (IF Sign(x) * Sign(y) = 0 THEN NaN
               ELSE IF Sign(x) * Sign(y) > 0 THEN PInf ELSE NInf)
    ELSE IF x[1] = 0 \/ y[1] = 0 THEN Zero
    ELSE IF x = One THEN y
    ELSE IF y = One THEN x
    ELSE IF x[2] = 1 /\ y[2] = 1
    THEN (IF MulFits(x[1], y[1]) THEN <<x[1] * y[1], 1>> ELSE OutOfRange)
    ELSE LET g1 == GCD(Abs(x[1]), y[2])
             g2 == GCD(Abs(y[1]), x[2])
             a == x[1] \div g1
             c == y[1] \div g2
             b == x[2] \div g2
             d == y[2] \div g1
         IN IF MulFits(a, c) /\ MulFits(b, d)
            THEN Norm(a * c, b * d)
            ELSE OutOfRange

\* 1/y: 1/0 is +inf, 1/inf is 0.
Recip(y) ==
    IF IsOut(y) THEN OutOfRange
    ELSE IF IsNaN(y) THEN NaN
    ELSE IF IsInf(y) THEN Zero
    ELSE IF y[1] = 0 THEN PInf
    ELSE IF y[1] > 0 THEN <<y[2], y[1]>> ELSE <<-y[2], -y[1]>>

\* x/y: 0/0 and inf/inf are NaN, x/0 is inf with the sign of x.
Div(x, y) ==
    IF IsOut(x) \/ IsOut(y) THEN OutOfRange
    ELSE IF IsNaN(x) \/ IsNaN(y) THEN NaN
    ELSE IF IsInf(x) /\ IsInf(y) THEN NaN
    ELSE IF IsFinite(x) /\ IsFinite(y) /\ x[1] = 0 /\ y[1] = 0 THEN NaN
    ELSE Mul(x, Recip(y))

\* x < y; false when either is NaN, as every IEEE comparison with NaN.
Lt(x, y) ==
    IF IsOut(x) \/ IsOut(y) \/ IsNaN(x) \/ IsNaN(y) THEN FALSE
    ELSE IF IsInf(x) \/ IsInf(y)
         THEN (IF x = y THEN FALSE
               ELSE IF x = NInf \/ y = PInf THEN TRUE ELSE FALSE)
    ELSE Sign(Sub(x, y)) < 0

AbsR(x) == IF IsOut(x) THEN x ELSE <<Abs(x[1]), x[2]>>


(***************************************************************************)
(* Vectors are sequences of numbers, matrices are sequences of rows.       *)
(* Tup evaluates a function over 1..n into a tuple once.                   *)
(***************************************************************************)
Tup(f) == f \o <<>>

VecOf(n, F(_)) == Tup([i \in 1..n |-> F(i)])
MatOf(n, F(_, _)) == Tup([i \in 1..n |-> Tup([j \in 1..n |-> F(i, j)])])

RECURSIVE SumFrom(_, _)
SumFrom(v, i) == IF i > Len(v) THEN Zero
                 ELSE IF i = Len(v) THEN v[i]
                 ELSE Add(v[i], SumFrom(v, i + 1))

VecAdd(u, v) == Tup([i \in 1..Len(u) |-> Add(u[i], v[i])])
VecSub(u, v) == Tup([i \in 1..Len(u) |-> Sub(u[i], v[i])])
VecScale(c, v) == Tup([i \in 1..Len(v) |-> Mul(c, v[i])])
VecNeg(v) == Tup([i \in 1..Len(v) |-> Neg(v[i])])
Dot(u, v) == SumFrom(Tup([i \in 1..Len(u) |-> Mul(u[i], v[i])]), 1)

MatVec(M, v) == Tup([i \in 1..Len(M) |-> Dot(M[i], v)])
Column(M, j) == Tup([i \in 1..Len(M) |-> M[i][j]])
MatMul(A, B) ==
    Tup([i \in 1..Len(A) |-> Tup([j \in 1..Len(B[1]) |-> Dot(A[i], Column(B, j))])])
MatAdd(A, B) ==
    Tup([i \in 1..Len(A) |-> Tup([j \in 1..Len(A[i]) |-> Add(A[i][j], B[i][j])])])
MatSub(A, B) ==
    Tup([i \in 1..Len(A) |-> Tup([j \in 1..Len(A[i]) |-> Sub(A[i][j], B[i][j])])])
\* Elementwise product, division by a scalar and product with a scalar.
MatHadamard(A, B) ==
    Tup([i \in 1..Len(A) |-> Tup([j \in 1..Len(A[i]) |-> Mul(A[i][j], B[i][j])])])
MatScale(A, c) ==
    Tup([i \in 1..Len(A) |-> Tup([j \in 1..Len(A[i]) |-> Mul(A[i][j], c)])])
MatDivScalar(A, c) ==
    Tup([i \in 1..Len(A) |-> Tup([j \in 1..Len(A[i]) |-> Div(A[i][j], c)])])
Outer(u, v) ==
    Tup([i \in 1..Len(u) |-> Tup([j \in 1..Len(v) |-> Mul(u[i], v[j])])])
Eye(n) == MatOf(n, LAMBDA i, j: IF i = j THEN One ELSE Zero)
ZeroVec(n) == VecOf(n, LAMBDA i: Zero)
ConstMat(n, c) == MatOf(n, LAMBDA i, j: c)

VecAll(v, P(_)) == \A i \in 1..Len(v): P(v[i])
MatAll(M, P(_)) == \A i \in 1..Len(M): \A j \in 1..Len(M[i]): P(M[i][j])
VecHasOut(v) == \E i \in 1..Len(v): IsOut(v[i])
MatHasOut(M) == \E i \in 1..Len(M): VecHasOut(M[i])


(***************************************************************************)
(* The update rules.  Each takes the inverse Hessian H, the weight delta s *)
(* and the gradient delta y, and returns the new inverse Hessian.          *)
(***************************************************************************)
\* Default of bfgs's maxrho, 1e4.
maxrho == 10000
\* Default of dfp's maxnum, 1e5.
maxnum == 100000
\* Default of sr1's epsilon is 1e-8: epsilon = 1 / EpsilonInv.
EpsilonInv == 100000000

\* T.clip(x, lo, hi): a NaN passes through, as both comparisons are false.
Clip(x, lo, hi) ==
    IF IsOut(x) THEN x
    ELSE IF Lt(x, lo) THEN lo
    ELSE IF Lt(hi, x) THEN hi
    ELSE x

\* bfgs without its rank-one term rho * s (x) s.
bfgs_NoRankOne(inverse_hessian, weight_delta, gradient_delta) ==
    LET n == Len(inverse_hessian)
        rho0 == Div(One, Dot(gradient_delta, weight_delta))
        rho == IF IsInf(rho0) THEN Mul(Int2R(maxrho), Int2R(Sign(rho0))) ELSE rho0
        param1 == MatSub(Eye(n), MatScale(Outer(weight_delta, gradient_delta), rho))
        param2 == MatSub(Eye(n), MatScale(Outer(gradient_delta, weight_delta), rho))
    IN MatMul(MatMul(param1, inverse_hessian), param2)

bfgs(inverse_hessian, weight_delta, gradient_delta) ==
    LET n == Len(inverse_hessian)
        ident_matrix == Eye(n)
        rho0 == Div(One, Dot(gradient_delta, weight_delta))
        rho == IF IsInf(rho0) THEN Mul(Int2R(maxrho), Int2R(Sign(rho0))) ELSE rho0
        param1 == MatSub(ident_matrix, MatScale(Outer(weight_delta, gradient_delta), rho))
        param2 == MatSub(ident_matrix, MatScale(Outer(gradient_delta, weight_delta), rho))
        param3 == MatScale(Outer(weight_delta, weight_delta), rho)
    IN MatAdd(MatMul(MatMul(param1, inverse_hessian), param2), param3)

dfp(inverse_hessian, weight_delta, gradient_delta) ==
    LET quasi_dot_gradient == MatVec(inverse_hessian, gradient_delta)
        param1 == MatDivScalar(Outer(weight_delta, weight_delta),
                               Dot(gradient_delta, weight_delta))
        product == MatHadamard(Outer(quasi_dot_gradient, gradient_delta),
                               inverse_hessian)
        param2_numerator ==
            Tup([i \in 1..Len(product) |->
                Tup([j \in 1..Len(product[i]) |->
                    Clip(product[i][j], Int2R(-maxnum), Int2R(maxnum))])])
        param2_denominator == Dot(gradient_delta, quasi_dot_gradient)
        param2 == MatDivScalar(param2_numerator, param2_denominator)
    IN MatSub(MatAdd(inverse_hessian, param1), param2)

psb(inverse_hessian, weight_delta, gradient_delta) ==
    LET param == VecSub(weight_delta, MatVec(inverse_hessian, gradient_delta))
        devider == Div(One, Dot(gradient_delta, gradient_delta))
        param1 == MatAdd(Outer(param, gradient_delta), Outer(gradient_delta, param))
        param2 == MatScale(Outer(gradient_delta, gradient_delta),
                           Dot(gradient_delta, param))
    IN MatSub(MatAdd(inverse_hessian, MatScale(param1, devider)),
              MatScale(param2, Mul(devider, devider)))

(***************************************************************************)
(* sr1's test  |denominator| < epsilon * ||param||_2 * ||gradient_delta||_2 *)
(* where rr and yy are the squared norms.  Both sides are non-negative, so *)
(* the test is decided on the squares,                                     *)
(*      denominator^2 * EpsilonInv^2 < rr * yy,                            *)
(* which needs no square root.  With absden = c/d and rr * yy = a/b this   *)
(* is  c^2 * b * EpsilonInv^2 < a * d^2,  computed by integer division.    *)
(* "out" when an operand is outside the model's range.                     *)
(***************************************************************************)
LtEpsNorms(absden, rr, yy) ==
    IF IsOut(absden) \/ IsOut(rr) \/ IsOut(yy) \/ IsOut(Mul(rr, yy)) THEN "out"
    ELSE IF IsNaN(absden) \/ IsNaN(rr) \/ IsNaN(yy) THEN "false"
    ELSE IF IsInf(rr) \/ IsInf(yy)
         THEN (IF Sign(rr) = 0 \/ Sign(yy) = 0 THEN "false"
               ELSE IF IsInf(absden) THEN "false" ELSE "true")
    ELSE IF IsInf(absden) THEN "false"
    ELSE LET q == Mul(rr, yy)
             c == absden[1]
             d == absden[2]
         IN IF c = 0 THEN (IF q[1] > 0 THEN "true" ELSE "false")
            ELSE IF ~(MulFits(c, c) /\ MulFits(c * c, q[2])
                      /\ MulFits(d, d) /\ MulFits(d * d, q[1])) THEN "out"
            ELSE IF q[1] = 0 THEN "false"
            ELSE IF c * c * q[2] <= ((q[1] * d * d - 1) \div EpsilonInv) \div EpsilonInv
                 THEN "true" ELSE "false"

\* sr1 without the test that skips the update.
sr1_NoSkip(inverse_hessian, weight_delta, gradient_delta) ==
    LET param == VecSub(weight_delta, MatVec(inverse_hessian, gradient_delta))
        denominator == Dot(param, gradient_delta)
    IN MatAdd(inverse_hessian, MatDivScalar(Outer(param, param), denominator))

sr1(inverse_hessian, weight_delta, gradient_delta) ==
    LET param == VecSub(weight_delta, MatVec(inverse_hessian, gradient_delta))
        denominator == Dot(param, gradient_delta)
        skip == LtEpsNorms(AbsR(denominator), Dot(param, param),
                           Dot(gradient_delta, gradient_delta))
    IN IF skip = "out" THEN ConstMat(Len(inverse_hessian), OutOfRange)
       ELSE IF skip = "true" THEN inverse_hessian
       ELSE MatAdd(inverse_hessian, MatDivScalar(Outer(param, param), denominator))

UpdateFunctions == {"bfgs", "dfp", "psb", "sr1"}

\* The update rule the ChoiceProperty update_function selects.
ApplyUpdateFunction(name, H, s, y) ==
    CASE name = "bfgs" -> bfgs(H, s, y)
      [] name = "dfp" -> dfp(H, s, y)
      [] name = "psb" -> psb(H, s, y)
      [] name = "sr1" -> sr1(H, s, y)


(***************************************************************************)
(* Tensors and the vectorization layer.  A tensor is a record of its shape *)
(* (one or two dimensions) and its data: a sequence of numbers, or a       *)
(* sequence of rows.  Flattening is row-major.                             *)
(***************************************************************************)
Size(shape) == IF Len(shape) = 1 THEN shape[1] ELSE shape[1] * shape[2]

\* T.reshape(v, shape) of a vector v of Size(shape) elements.
Reshape(v, shape) ==
    IF Len(shape) = 1
    THEN [shape |-> shape, data |-> v]
    ELSE [shape |-> shape,
          data |-> Tup([i \in 1..shape[1] |->
                        SubSeq(v, (i - 1) * shape[2] + 1, i * shape[2])])]

RECURSIVE ConcatFrom(_, _)
ConcatFrom(seqs, i) ==
    IF i > Len(seqs) THEN <<>> ELSE seqs[i] \o ConcatFrom(seqs, i + 1)

\* tensor.flatten()
FlattenTensor(t) ==
    IF Len(t.shape) = 1 THEN t.data ELSE ConcatFrom(t.data, 1)

\* v[start:end], a Python slice with 0-based start and exclusive end.
Slice(v, start, end) ==
    SubSeq(v, start + 1, IF end > Len(v) THEN Len(v) ELSE end)

(***************************************************************************)
(* Layers.  A layer is its members, as inspect.getmembers lists them: a    *)
(* sequence of <<name, value>> sorted by name, and layer.parameters, the   *)
(* identities of its shared parameter variables in the order they were     *)
(* added.  A value is a shared parameter variable (identified by id), a    *)
(* trial expression (a tensor), or some other object.                      *)
(***************************************************************************)
Shared(id) == [kind |-> "shared", id |-> id, val |-> <<>>]
Expr(tensor) == [kind |-> "expr", id |-> 0, val |-> tensor]
Other == [kind |-> "other", id |-> 0, val |-> <<>>]

RECURSIVE FindFrom(_, _, _)
FindFrom(members, parameter, k) ==
    IF k > Len(members) THEN "None"
    ELSE IF members[k][2] = parameter THEN members[k][1]
    ELSE FindFrom(members, parameter, k + 1)

\* The name of the first member whose value is the parameter object.
find_param_name(layer, parameter) == FindFrom(layer.members, parameter, 1)

\* setattr(layer, attrname, value) for a name the layer has.
SetAttr(layer, attrname, value) ==
    [layer EXCEPT !.members =
        Tup([k \in 1..Len(layer.members) |->
             IF layer.members[k][1] = attrname
             THEN <<attrname, value>> ELSE layer.members[k]])]

\* getattr(layer, attrname)
RECURSIVE GetFrom(_, _, _)
GetFrom(members, attrname, k) ==
    IF k > Len(members) THEN Other
    ELSE IF members[k][1] = attrname THEN members[k][2]
    ELSE GetFrom(members, attrname, k + 1)

GetAttr(layer, attrname) == GetFrom(layer.members, attrname, 1)

\* The (layer, attribute name, parameter) triples, layer by layer and, in a
\* layer, in the order of layer.parameters.
RECURSIVE IterLayerFrom(_, _, _)
IterLayerFrom(ls, li, k) ==
    IF k > Len(ls[li].parameters) THEN <<>>
    ELSE <<[layer |-> li,
            attrname |-> find_param_name(ls[li], Shared(ls[li].parameters[k])),
            param |-> ls[li].parameters[k]]>>
         \o IterLayerFrom(ls, li, k + 1)

RECURSIVE IterLayersFrom(_, _)
IterLayersFrom(ls, li) ==
    IF li > Len(ls) THEN <<>>
    ELSE IterLayerFrom(ls, li, 1) \o IterLayersFrom(ls, li + 1)

iter_layers_and_parameters(ls) == IterLayersFrom(ls, 1)

\* The network's parameters, in the order of its layers and their parameters.
iter_parameters(ls) ==
    LET lp == iter_layers_and_parameters(ls)
    IN Tup([k \in 1..Len(lp) |-> lp[k].param])

\* The flat vector of all parameter values.
parameters2vector(ls, vals) ==
    LET ps == iter_parameters(ls)
    IN ConcatFrom(Tup([k \in 1..Len(ps) |-> FlattenTensor(vals[ps[k]])]), 1)

\* The new value of each parameter: its slice of the vector, reshaped.
RECURSIVE SetupFrom(_, _, _, _, _)
SetupFrom(ps, vals, vector, k, start_position) ==
    IF k > Len(ps) THEN vals
    ELSE LET end_position == start_position + Size(vals[ps[k]].shape)
             new_parameter == Reshape(Slice(vector, start_position, end_position),
                                      vals[ps[k]].shape)
         IN SetupFrom(ps, [vals EXCEPT ![ps[k]] = new_parameter], vector,
                      k + 1, end_position)

setup_parameter_updates(ps, vals, vector) == SetupFrom(ps, vals, vector, 1, 0)


\* The tensors of a flat vector: consecutive slices [start_pos, end_pos) in
\* the order of the shapes, each reshaped to its shape.
RECURSIVE SliceFrom(_, _, _, _)
SliceFrom(shapes, updated_params, k, start_pos) ==
    IF k > Len(shapes) THEN <<>>
    ELSE LET end_pos == start_pos + Size(shapes[k])
             updated_param_value ==
                 Reshape(Slice(updated_params, start_pos, end_pos), shapes[k])
         IN <<updated_param_value>> \o SliceFrom(shapes, updated_params, k + 1, end_pos)

\* The slices with start_pos never advanced: every slice starts at 0.
SliceParameters_NoAdvance(shapes, updated_params) ==
    Tup([k \in 1..Len(shapes) |->
         Reshape(Slice(updated_params, 0, Size(shapes[k])), shapes[k])])

SliceParameters(shapes, updated_params) == SliceFrom(shapes, updated_params, 1, 0)

\* The concatenation of the flattened tensors, in their order.
FlattenAll(tensors) ==
    ConcatFrom(Tup([k \in 1..Len(tensors) |-> FlattenTensor(tensors[k])]), 1)

\* The first loop of prediction: every parameter attribute is set to its
\* slice of the trial vector.
RECURSIVE SubstituteFrom(_, _, _, _)
SubstituteFrom(ls, lp, trial, k) ==
    IF k > Len(lp) THEN ls
    ELSE SubstituteFrom(
            [ls EXCEPT ![lp[k].layer] = SetAttr(@, lp[k].attrname, Expr(trial[k]))],
            lp, trial, k + 1)

SubstituteParameters(ls, lp, vals, updated_params) ==
    SubstituteFrom(ls, lp,
        SliceParameters(Tup([k \in 1..Len(lp) |-> vals[lp[k].param].shape]),
                        updated_params),
        1)

\* The second loop of prediction: every attribute is set back to the shared
\* parameter variable.
RECURSIVE RestoreFrom(_, _, _)
RestoreFrom(ls, lp, k) ==
    IF k > Len(lp) THEN ls
    ELSE RestoreFrom(
            [ls EXCEPT ![lp[k].layer] = SetAttr(@, lp[k].attrname, Shared(lp[k].param))],
            lp, k + 1)

\* prediction without its second loop.
RestoreParameters_Skipped(ls, lp) == ls

RestoreParameters(ls, lp) == RestoreFrom(ls, lp, 1)

\* What the network computes with: the values its parameter attributes
\* hold, a trial expression's tensor or a shared variable's stored value.
NetworkRead(ls, lp, vals) ==
    FlattenAll(Tup([k \in 1..Len(lp) |->
        LET held == GetAttr(ls[lp[k].layer], lp[k].attrname)
        IN IF held.kind = "expr" THEN held.val ELSE vals[held.id]]))

(***************************************************************************)
(* The objective.  The network and its error function are collaborators of *)
(* the optimizer; the model takes a quadratic error                        *)
(*      error(q) = 1/2 q.A.q - b.q,    gradient(q) = A.q - b               *)
(* with A symmetric, chosen when the network is built.                     *)
(***************************************************************************)
Half == <<1, 2>>
ErrorFunc(obj, q) == Sub(Mul(Half, Dot(q, MatVec(obj.A, q))), Dot(obj.b, q))
Gradient(obj, q) == VecSub(MatVec(obj.A, q), obj.b)

IntVec(v) == Tup([i \in 1..Len(v) |-> Int2R(v[i])])
IntMat(M) == Tup([i \in 1..Len(M) |-> IntVec(M[i])])


(***************************************************************************)
(* Bounded inputs of the optimizer.                                        *)
(***************************************************************************)
\* Training steps explored: the steps of epochs 1..MaxEpoch.
MaxEpoch == 3

\* Networks with two scalar parameters in all: one layer with a 1x1 weight
\* and a bias, two layers with a 1x1 weight each, one layer with a 2x1
\* weight.  Every layer also has a member that is no parameter.
Networks == <<
    [layers |-> << [members |-> << <<"bias", Shared(2)>>, <<"size", Other>>,
                                   <<"weight", Shared(1)>> >>,
                    parameters |-> <<1, 2>>] >>,
     shapes |-> << <<1, 1>>, <<1>> >>],
    [layers |-> << [members |-> << <<"size", Other>>, <<"weight", Shared(1)>> >>,
                    parameters |-> <<1>>],
                   [members |-> << <<"size", Other>>, <<"weight", Shared(2)>> >>,
                    parameters |-> <<2>>] >>,
     shapes |-> << <<1, 1>>, <<1, 1>> >>],
    [layers |-> << [members |-> << <<"size", Other>>, <<"weight", Shared(1)>> >>,
                    parameters |-> <<1>>] >>,
     shapes |-> << <<2, 1>> >>] >>

\* Values of h0_scale (a NumberProperty with minval = 0).
H0Scales == {1, 2}

\* Objectives: convex ones and a saddle.  Every objective and every initial
\* parameter vector is explored with the first network, the other networks
\* with the first objective and the first initial vector.
FirstObjective == [A |-> IntMat(<< <<1, 0>>, <<0, 1>> >>), b |-> IntVec(<<0, 0>>)]
Objectives == {
    FirstObjective,
    [A |-> IntMat(<< <<2, -1>>, <<-1, 1>> >>), b |-> IntVec(<<0, 0>>)],
    [A |-> IntMat(<< <<2, -1>>, <<-1, 1>> >>), b |-> IntVec(<<1, 0>>)],
    [A |-> IntMat(<< <<1, 0>>, <<0, -1>> >>), b |-> IntVec(<<0, 0>>)] }

\* Initial parameter vectors.
FirstParams == <<-1, 0>>
InitialParams == { FirstParams, <<-1, -1>>, <<-2, -3>> }

\* Step lengths the line search may return, and steps it may probe.
Alphas == { Zero, Half, One }
ProbeSteps == { Zero, One }

(***************************************************************************)
(* State.                                                                  *)
(***************************************************************************)
VARIABLES
    update_function,     \* the configured update rule
    h0_scale,            \* the configured scale of the initial inverse Hessian
    objective,           \* the error function of the network
    layers,              \* the layers: their members and parameters
    values,              \* the value of each shared parameter variable
    inv_hessian,         \* variables.inv_hessian
    prev_params,         \* variables.prev_params
    prev_full_gradient,  \* variables.prev_full_gradient
    epoch,               \* variables.epoch
    hist,                \* the locals of the last training step
    hist2,               \* the locals of the training step before it
    probe,               \* the last call of phi or derphi since the last step
    upd,                 \* one application of an update rule (SpecUpd)
    vec                  \* one round trip of the vectorization (SpecVec)

vars == <<update_function, h0_scale, objective, layers, values, inv_hessian,
          prev_params, prev_full_gradient, epoch, hist, hist2, probe, upd, vec>>

NoUpd == [pc |-> "off", fn |-> "bfgs", H |-> <<>>, s |-> <<>>, y |-> <<>>, out |-> <<>>]
NoVec == [pc |-> "off", shapes |-> <<>>, v |-> <<>>, tensors |-> <<>>, flat |-> <<>>]
NoProbe == [kind |-> "none", step |-> Zero, value |-> Zero,
            repeated |-> FALSE, same |-> TRUE]
NoHist == [epoch |-> 0, p |-> <<>>, g |-> <<>>, step |-> Zero, Hin |-> <<>>,
           s |-> <<>>, y |-> <<>>, Hnew |-> <<>>, delta |-> <<>>, updated |-> <<>>]

\* The number of scalar parameters: the sum of the parameters' sizes.
NParams(ls, vals) ==
    LET ps == iter_parameters(ls)
    IN Len(ConcatFrom(Tup([k \in 1..Len(ps) |-> FlattenTensor(vals[ps[k]])]), 1))

\* h0_scale * eye(n)
ScaledEye(scale, n) == MatScale(Eye(n), Int2R(scale))

\* init_variables, after the network is built with its initial parameters.
Init ==
    /\ update_function \in UpdateFunctions
    /\ h0_scale \in H0Scales
    /\ \E k \in 1..Len(Networks): \E p0 \in InitialParams:
          /\ objective \in Objectives
          /\ k > 1 => (objective = FirstObjective /\ p0 = FirstParams)
          /\ layers = Networks[k].layers
          /\ values = setup_parameter_updates(
                          iter_parameters(Networks[k].layers),
                          Tup([i \in 1..Len(Networks[k].shapes) |->
                               Reshape(ZeroVec(Size(Networks[k].shapes[i])),
                                       Networks[k].shapes[i])]),
                          IntVec(p0))
    /\ inv_hessian = ScaledEye(h0_scale, NParams(layers, values))
    /\ prev_params = ZeroVec(NParams(layers, values))
    /\ prev_full_gradient = ZeroVec(NParams(layers, values))
    /\ epoch = 1
    /\ hist = NoHist
    /\ hist2 = NoHist
    /\ probe = NoProbe
    /\ upd = NoUpd
    /\ vec = NoVec

(***************************************************************************)
(* init_train_updates: the expressions of one training step.               *)
(***************************************************************************)
\* The update rule applied at every epoch, the first included.
NewInvHessian_EveryEpoch(ep, fn, H, param_vector, prev_p, full_gradient, prev_g) ==
    ApplyUpdateFunction(fn, H, VecSub(param_vector, prev_p),
                        VecSub(full_gradient, prev_g))

\* The inverse Hessian of the step: the stored one at epoch 1, the update
\* rule's result afterwards.
NewInvHessian(ep, fn, H, param_vector, prev_p, full_gradient, prev_g) ==
    IF ep = 1
    THEN H
    ELSE ApplyUpdateFunction(fn, H, VecSub(param_vector, prev_p),
                             VecSub(full_gradient, prev_g))

\* The direction without its sign.
ParamDelta_NotNegated(new_inv_hessian, full_gradient) ==
    MatVec(new_inv_hessian, full_gradient)

ParamDelta(new_inv_hessian, full_gradient) ==
    VecNeg(MatVec(new_inv_hessian, full_gradient))

UpdatedParams(param_vector, step, param_delta) ==
    VecAdd(param_vector, VecScale(step, param_delta))

\* prev_params set to the parameters after the move.
PersistedParams_AfterMove(param_vector, updated_params) == updated_params

\* The value the step stores in prev_params.
PersistedParams(param_vector, updated_params) == param_vector

\* The layers as prediction(step) leaves them, and the output it returns
\* (the parameter values the network computed with).
PredictionLayers(ls, vals, updated_params) ==
    LET lp == iter_layers_and_parameters(ls)
    IN RestoreParameters(SubstituteParameters(ls, lp, vals, updated_params), lp)

PredictionOutput(ls, vals, updated_params) ==
    LET lp == iter_layers_and_parameters(ls)
    IN NetworkRead(SubstituteParameters(ls, lp, vals, updated_params), lp, vals)

\* The trial vector of a probe at the given step.  prediction, phi and
\* derphi are called by the line search while init_train_updates builds
\* the training step, before the first epoch runs.
TrialDelta ==
    LET param_vector == parameters2vector(layers, values)
        full_gradient == Gradient(objective, param_vector)
    IN ParamDelta(NewInvHessian(epoch, update_function, inv_hessian, param_vector,
                                prev_params, full_gradient, prev_full_gradient),
                  full_gradient)

TrialParams(step) ==
    UpdatedParams(parameters2vector(layers, values), step, TrialDelta)

Probe(kind, step, value) ==
    /\ epoch = 1
    /\ ~IsOut(value)
    /\ ~VecHasOut(TrialParams(step))
    /\ layers' = PredictionLayers(layers, values, TrialParams(step))
    /\ probe' = [kind |-> kind, step |-> step, value |-> value,
                 repeated |-> probe.kind = kind /\ probe.step = step,
                 same |-> (probe.kind = kind /\ probe.step = step)
                              => value = probe.value]
    /\ UNCHANGED <<update_function, h0_scale, objective, values, inv_hessian,
                   prev_params, prev_full_gradient, epoch, hist, hist2, upd, vec>>

\* phi(step): the error at the trial point.
Phi(step) ==
    Probe("phi", step,
          ErrorFunc(objective, PredictionOutput(layers, values, TrialParams(step))))

\* derphi(step): the derivative of the error at the trial point with
\* respect to the step.
DerPhi(step) ==
    Probe("derphi", step,
          Dot(Gradient(objective, PredictionOutput(layers, values, TrialParams(step))),
              TrialDelta))

\* One training step: the updates of init_train_updates applied at once,
\* with the step length the line search returned; the training loop then
\* advances the epoch.
TrainEpoch(step) ==
    LET params == iter_parameters(layers)
        param_vector == parameters2vector(layers, values)
        full_gradient == Gradient(objective, param_vector)
        new_inv_hessian ==
            NewInvHessian(epoch, update_function, inv_hessian, param_vector,
                          prev_params, full_gradient, prev_full_gradient)
        param_delta == ParamDelta(new_inv_hessian, full_gradient)
        updated_params == UpdatedParams(param_vector, step, param_delta)
    IN /\ epoch <= MaxEpoch
       /\ ~MatHasOut(new_inv_hessian)
       /\ ~VecHasOut(updated_params)
       /\ ~VecHasOut(full_gradient)
       /\ values' = setup_parameter_updates(params, values, updated_params)
       /\ inv_hessian' = new_inv_hessian
       /\ prev_params' = PersistedParams(param_vector, updated_params)
       /\ prev_full_gradient' = full_gradient
       /\ epoch' = epoch + 1
       /\ hist' = [epoch |-> epoch, p |-> param_vector, g |-> full_gradient,
                   step |-> step, Hin |-> inv_hessian,
                   s |-> VecSub(param_vector, prev_params),
                   y |-> VecSub(full_gradient, prev_full_gradient),
                   Hnew |-> new_inv_hessian, delta |-> param_delta,
                   updated |-> updated_params]
       /\ hist2' = hist
       /\ probe' = NoProbe
       /\ UNCHANGED <<update_function, h0_scale, objective, layers, upd, vec>>

Next ==
    \/ \E step \in Alphas: TrainEpoch(step)
    \/ \E step \in ProbeSteps: Phi(step)
    \/ \E step \in ProbeSteps: DerPhi(step)

Spec == Init /\ [][Next]_vars


(***************************************************************************)
(* SpecUpd: one application of an update rule to inputs drawn from bounded *)
(* sets: H symmetric with entries in 0..UpdMax, s and y with entries in    *)
(* -UpdMax..UpdMax.                                                        *)
(***************************************************************************)
UpdMax == 1

UpdVectors == { IntVec(<<a, b>>) : a \in -UpdMax..UpdMax, b \in -UpdMax..UpdMax }
UpdMatrices == { IntMat(<< <<a, b>>, <<b, c>> >>) :
                    a \in 0..UpdMax, b \in 0..UpdMax, c \in 0..UpdMax }

MainOff ==
    /\ update_function = "bfgs"
    /\ h0_scale = 1
    /\ objective = FirstObjective
    /\ layers = <<>>
    /\ values = <<>>
    /\ inv_hessian = <<>>
    /\ prev_params = <<>>
    /\ prev_full_gradient = <<>>
    /\ epoch = 0
    /\ hist = NoHist
    /\ hist2 = NoHist
    /\ probe = NoProbe

InitUpd ==
    /\ MainOff
    /\ vec = NoVec
    /\ \E fn \in UpdateFunctions, H \in UpdMatrices, s \in UpdVectors, y \in UpdVectors:
          upd = [pc |-> "call", fn |-> fn, H |-> H, s |-> s, y |-> y, out |-> <<>>]

ApplyUpdate ==
    /\ upd.pc = "call"
    /\ ~MatHasOut(ApplyUpdateFunction(upd.fn, upd.H, upd.s, upd.y))
    /\ upd' = [upd EXCEPT !.pc = "done",
                          !.out = ApplyUpdateFunction(upd.fn, upd.H, upd.s, upd.y)]
    /\ UNCHANGED <<update_function, h0_scale, objective, layers, values, inv_hessian,
                   prev_params, prev_full_gradient, epoch, hist, hist2, probe, vec>>

NextUpd == ApplyUpdate

SpecUpd == InitUpd /\ [][NextUpd]_vars

(***************************************************************************)
(* SpecVec: one round trip of the vectorization.  A vector is sliced and   *)
(* reshaped into tensors of the given shapes as prediction does, and the   *)
(* tensors are flattened and concatenated as the parameters and gradients  *)
(* are.  Shape sequences have 1..MaxTensors shapes of one or two           *)
(* dimensions of 1..MaxDim; the vector's entries are pairwise distinct.    *)
(***************************************************************************)
MaxTensors == 2
MaxDim == 2
MaxBase == 1

VecShapes == { <<a>> : a \in 1..MaxDim } \cup { <<a, b>> : a \in 1..MaxDim, b \in 1..MaxDim }
VecShapeSeqs == UNION { [1..k -> VecShapes] : k \in 1..MaxTensors }

RECURSIVE TotalSize(_, _)
TotalSize(shapes, k) ==
    IF k > Len(shapes) THEN 0 ELSE Size(shapes[k]) + TotalSize(shapes, k + 1)

InitVec ==
    /\ MainOff
    /\ upd = NoUpd
    /\ \E shapes \in VecShapeSeqs, base \in 0..MaxBase:
          vec = [pc |-> "start", shapes |-> Tup(shapes),
                 v |-> Tup([i \in 1..TotalSize(shapes, 1) |-> Int2R(base + i)]),
                 tensors |-> <<>>, flat |-> <<>>]

Unflatten ==
    /\ vec.pc = "start"
    /\ vec' = [vec EXCEPT !.pc = "sliced",
                          !.tensors = SliceParameters(vec.shapes, vec.v)]
    /\ UNCHANGED <<update_function, h0_scale, objective, layers, values, inv_hessian,
                   prev_params, prev_full_gradient, epoch, hist, hist2, probe, upd>>

Flatten ==
    /\ vec.pc = "sliced"
    /\ vec' = [vec EXCEPT !.pc = "done", !.flat = FlattenAll(vec.tensors)]
    /\ UNCHANGED <<update_function, h0_scale, objective, layers, values, inv_hessian,
                   prev_params, prev_full_gradient, epoch, hist, hist2, probe, upd>>

NextVec == Unflatten \/ Flatten

SpecVec == InitVec /\ [][NextVec]_vars


(***************************************************************************)
(* Properties.                                                             *)
(***************************************************************************)
IsFiniteVec(v) == VecAll(v, IsFinite)
IsFiniteMat(M) == MatAll(M, IsFinite)
Symmetric(M) == \A i \in 1..Len(M): \A j \in 1..Len(M): M[i][j] = M[j][i]
\* A symmetric 2x2 matrix is positive-definite iff its leading minors are
\* positive.
PosDef2(M) ==
    /\ Sign(M[1][1]) > 0
    /\ Sign(Sub(Mul(M[1][1], M[2][2]), Mul(M[1][2], M[2][1]))) > 0

\* The live parameter vector.
LiveParams == parameters2vector(layers, values)
\* The last step applied the update rule, to finite inputs.
UpdateApplied == hist.epoch > 1
FiniteInputs == IsFiniteMat(hist.Hin) /\ IsFiniteVec(hist.s) /\ IsFiniteVec(hist.y)
\* H.y and r = s - H.y of the last update.
HistHy == MatVec(hist.Hin, hist.y)
HistR == VecSub(hist.s, HistHy)

\* C1: the first step (epoch 1) does not apply the update rule: the inverse
\* Hessian it persists is the initial h0_scale * I, although prev_params and
\* prev_full_gradient are still zero vectors; a step of a later epoch
\* persists the update rule's result.
C1_FirstStepKeepsH ==
    /\ epoch = 2 =>
          /\ hist.epoch = 1
          /\ hist.Hin = ScaledEye(h0_scale, Len(hist.p))
          /\ inv_hessian = ScaledEye(h0_scale, Len(hist.p))
    /\ hist.epoch > 1 =>
          inv_hessian = ApplyUpdateFunction(update_function, hist.Hin, hist.s, hist.y)

C1_Witness ==
    /\ epoch = 2
    /\ h0_scale = 2
    /\ hist.s # ZeroVec(2)
    /\ hist.y # ZeroVec(2)
    /\ hist.step = One
    /\ inv_hessian = ScaledEye(2, 2)

\* C2 (as claimed): each update rule returns a symmetric matrix when the
\* inverse Hessian it is given is symmetric and the result is defined, so
\* the inverse Hessian stays symmetric.
C2_SymmetryPreserved ==
    (UpdateApplied /\ FiniteInputs /\ Symmetric(hist.Hin) /\ IsFiniteMat(inv_hessian))
        => Symmetric(inv_hessian)

\* The curvature denominator of the last update is exactly zero.
ZeroCurvature ==
    \/ update_function \in {"bfgs", "dfp"} /\ Dot(hist.y, hist.s) = Zero
    \/ update_function = "dfp" /\ Dot(hist.y, HistHy) = Zero
    \/ update_function = "sr1" /\ Dot(HistR, hist.y) = Zero

\* C3 (as claimed): bfgs, dfp and sr1 return a matrix of finite entries
\* when H, s and y are finite and a curvature denominator is exactly zero.
C3_DegeneracyAbsorbed ==
    (UpdateApplied /\ update_function \in {"bfgs", "dfp", "sr1"}
        /\ FiniteInputs /\ ZeroCurvature)
        => IsFiniteMat(inv_hessian)

\* C4: a step commits p + alpha * d with d = -H'.g, where p is the flat
\* parameter vector before the step, g the gradient at p, alpha the step
\* length the line search returned and H' the inverse Hessian the step
\* persists (the unmodified H at epoch 1, the update rule's result later);
\* with H = I and alpha = 1 the committed parameters are p - g.
C4_CommittedParams ==
    epoch > 1 =>
        /\ hist.g = Gradient(objective, hist.p)
        /\ inv_hessian = IF hist.epoch = 1 THEN hist.Hin
                         ELSE ApplyUpdateFunction(update_function, hist.Hin,
                                                  hist.s, hist.y)
        /\ LiveParams = VecAdd(hist.p, VecScale(hist.step,
                                   VecNeg(MatVec(inv_hessian, hist.g))))
        /\ (h0_scale = 1 /\ hist.epoch = 1 /\ hist.step = One)
              => LiveParams = VecSub(hist.p, hist.g)

C4_Witness ==
    /\ epoch = 2
    /\ h0_scale = 1
    /\ hist.step = One
    /\ hist.g # ZeroVec(2)
    /\ LiveParams = VecSub(hist.p, hist.g)
    /\ LiveParams # hist.p

\* Every parameter of every layer is held by a member of the layer, and no
\* member holds a trial expression.
LayersHoldParameters ==
    \A li \in 1..Len(layers):
        /\ \A m \in 1..Len(layers[li].members): layers[li].members[m][2].kind # "expr"
        /\ \A k \in 1..Len(layers[li].parameters):
              find_param_name(layers[li], Shared(layers[li].parameters[k])) # "None"

\* A call of phi or derphi leaves the layers, the parameter values and the
\* optimizer's variables as they were.
ProbeFrame ==
    (probe' # probe /\ probe'.kind # "none")
        => /\ layers' = layers
           /\ values' = values
           /\ inv_hessian' = inv_hessian
           /\ prev_params' = prev_params
           /\ prev_full_gradient' = prev_full_gradient

\* C5: the probes are pure: after phi or derphi returns, every layer
\* attribute that held a parameter holds the shared parameter again, the
\* inverse Hessian, prev_params, prev_full_gradient and the parameter
\* values are unchanged, and a second call with the same step returns the
\* same result.
C5_ProbesArePure ==
    [](LayersHoldParameters /\ probe.same) /\ [][ProbeFrame]_vars

C5_Witness ==
    /\ probe.kind = "derphi"
    /\ probe.step = One
    /\ probe.repeated
    /\ probe.value # Zero
    /\ Len(layers) = 2
    /\ LayersHoldParameters

\* C6: a step persists prev_params = p and prev_full_gradient = g, the
\* parameters and gradient at its start, and the new H; the update rule of
\* the next step is given the persisted H, weight_delta = p_k - p_(k-1)
\* and gradient_delta = g_k - g_(k-1), and weight_delta is alpha * d of the
\* step before.  (Values are compared as stored: NaN equals NaN.)
C6_Handover ==
    /\ epoch > 1 =>
          /\ prev_params = hist.p
          /\ prev_full_gradient = hist.g
          /\ inv_hessian = hist.Hnew
          /\ LiveParams = hist.updated
    /\ hist.epoch > 1 =>
          /\ hist.p = hist2.updated
          /\ hist.g = Gradient(objective, hist.p)
          /\ hist.Hin = hist2.Hnew
          /\ hist.s = VecSub(hist.p, hist2.p)
          /\ hist.y = VecSub(hist.g, hist2.g)
          /\ hist.s = VecScale(hist2.step, hist2.delta)
          /\ hist.Hnew = ApplyUpdateFunction(update_function, hist2.Hnew,
                                             VecSub(hist.p, hist2.p),
                                             VecSub(hist.g, hist2.g))

C6_Witness ==
    /\ hist.epoch = 3
    /\ IsFiniteVec(hist.s)
    /\ hist.s # ZeroVec(2)
    /\ hist2.step = Half
    /\ hist.s = VecScale(hist2.step, hist2.delta)
    /\ prev_params # LiveParams

\* The offset of the k-th tensor in the flat vector.
Offset(shapes, k) == TotalSize(SubSeq(shapes, 1, k - 1), 1)

\* C7: slicing a vector at consecutive offsets in parameter order and
\* flattening the tensors again in the same order yields the vector; the
\* k-th tensor has the k-th shape and holds the k-th slice, and the slices
\* cover the vector.
C7_RoundTrip ==
    vec.pc = "done" =>
        /\ vec.flat = vec.v
        /\ Len(vec.tensors) = Len(vec.shapes)
        /\ Offset(vec.shapes, Len(vec.shapes) + 1) = Len(vec.v)
        /\ \A k \in 1..Len(vec.shapes):
              /\ vec.tensors[k].shape = vec.shapes[k]
              /\ FlattenTensor(vec.tensors[k]) =
                     SubSeq(vec.v, Offset(vec.shapes, k) + 1,
                            Offset(vec.shapes, k) + Size(vec.shapes[k]))

C7_Witness ==
    /\ vec.pc = "done"
    /\ vec.shapes = << <<2, 2>>, <<2>> >>
    /\ vec.flat = IntVec(<<1, 2, 3, 4, 5, 6>>)
    /\ vec.tensors[1].data = << IntVec(<<1, 2>>), IntVec(<<3, 4>>) >>

\* The second step of bfgs from H = I after a first step that moved the
\* parameters by [1, 0], with positive curvature y.s.
C8_Scenario ==
    /\ update_function = "bfgs"
    /\ hist.epoch = 2
    /\ hist.Hin = Eye(2)
    /\ hist.s = IntVec(<<1, 0>>)
    /\ Sign(Dot(hist.y, hist.s)) > 0

\* C8 (as claimed): in the scenario the H that bfgs computes differs from
\* the identity and is symmetric and positive-definite, for every such y.
C8_DiffersFromIdentity ==
    C8_Scenario =>
        /\ inv_hessian # Eye(2)
        /\ Symmetric(inv_hessian)
        /\ PosDef2(inv_hessian)

\* C8 (amended): in the scenario the H that bfgs computes is symmetric and
\* positive-definite, and it differs from the identity exactly when
\* y # [1, 0]: for y = s the update returns the identity.
C8_SymmetricPosDef ==
    C8_Scenario =>
        /\ Symmetric(inv_hessian)
        /\ PosDef2(inv_hessian)
        /\ IsFiniteMat(inv_hessian)
        /\ (inv_hessian = Eye(2)) <=> (hist.y = IntVec(<<1, 0>>))

C8_Witness == C8_Scenario /\ inv_hessian # Eye(2) /\ hist.y[2] # Zero

\* The integer square root.
ISqrt(n) == CHOOSE k \in 0..n: k * k <= n /\ (k + 1) * (k + 1) > n

\* r = s - H.y and denom = r.y of the application under test (integers,
\* as the inputs are).
UpdR == VecSub(upd.s, MatVec(upd.H, upd.y))
UpdDenom == Dot(UpdR, upd.y)
\* |denom| < epsilon * ||r|| * ||y||, with ||r|| * ||y|| = sqrt(rr * yy):
\* |denom| * EpsilonInv < sqrt(q)  iff  |denom| * EpsilonInv <= isqrt(q - 1).
UpdSkipExpected ==
    LET q == Dot(UpdR, UpdR)[1] * Dot(upd.y, upd.y)[1]
    IN q >= 1 /\ Abs(UpdDenom[1]) <= ISqrt(q - 1) \div EpsilonInv

\* C9: sr1 returns H unchanged, entry for entry, when
\* |denom| < epsilon * ||r|| * ||y||, and H + (r (x) r) / denom otherwise.
C9_Sr1SkipPath ==
    (upd.pc = "done" /\ upd.fn = "sr1") =>
        IF UpdSkipExpected
        THEN upd.out = upd.H
        ELSE \A i \in 1..2: \A j \in 1..2:
                upd.out[i][j] = Add(upd.H[i][j], Div(Mul(UpdR[i], UpdR[j]), UpdDenom))

C9_Witness ==
    /\ upd.pc = "done"
    /\ upd.fn = "sr1"
    /\ UpdSkipExpected
    /\ UpdR # ZeroVec(2)
    /\ upd.H # Eye(2)
    /\ upd.out = upd.H

\* No curvature denominator of the last update is zero, sr1 did not skip,
\* and neither bfgs's substitution nor dfp's clipping was triggered.
RegularCurvature ==
    CASE update_function = "bfgs" -> Dot(hist.y, hist.s) # Zero
      [] update_function = "dfp" ->
            /\ Dot(hist.y, hist.s) # Zero
            /\ Dot(hist.y, HistHy) # Zero
            /\ \A i \in 1..2: \A j \in 1..2:
                  LET x == Mul(Mul(HistHy[i], hist.y[j]), hist.Hin[i][j])
                  IN Clip(x, Int2R(-maxnum), Int2R(maxnum)) = x
      [] update_function = "psb" -> Dot(hist.y, hist.y) # Zero
      [] update_function = "sr1" -> Dot(HistR, hist.y) # Zero /\ inv_hessian # hist.Hin

\* C10 (as claimed): every update rule satisfies the secant equation
\* H'.y = s for symmetric H when its denominators are not zero and no
\* guard acted.
C10_SecantEquation ==
    (UpdateApplied /\ FiniteInputs /\ Symmetric(hist.Hin) /\ RegularCurvature)
        => MatVec(inv_hessian, hist.y) = hist.s

====
